---- MODULE Spec2Model ----
(***************************************************************************)
(* STU Sensitivity Analysis front end (frontend/src/App.tsx, api.ts,       *)
(* types.ts): the rent calculation that App embeds twice (PDF export and   *)
(* on-screen floorplan table), the React state of App, and the requests    *)
(* it sends to the backend.                                                *)
(*                                                                         *)
(* JavaScript numbers are modelled as exact rationals <<n, d>> with d > 0  *)
(* in lowest terms: the arithmetic is the code's, operation by operation,  *)
(* without the rounding of IEEE doubles.                                   *)
(***************************************************************************)
EXTENDS Integers, Sequences, FiniteSets, TLC

VARIABLES
    properties,        \* useState<Property[]>          App.tsx:32
    selectedProperty,  \* useState<Property | null>     App.tsx:33
    analyses,          \* useState<Analysis[]>          App.tsx:34
    selectedAnalysis,  \* useState<Analysis | null>     App.tsx:36
    scenarios,         \* useState<Scenario[]>          App.tsx:37
    loading,           \* useState(true)                App.tsx:38
    calculating,       \* useState(false)               App.tsx:39
    activeTab,         \* useState(0)                   App.tsx:40
    editingScenario,   \* useState<Scenario | null>     App.tsx:41
    tableRows,         \* the floorplan table the last render put on screen
    pdfDoc,            \* what the step just taken exported, if it was an export
    calcCalls,         \* calculateScenarios invocations awaiting Promise.all
    updateCalls,       \* updateScenario / resetScenario invocations in flight
    srvScenarios,      \* backend: the stored scenarios, by id
    srvFloorplans,     \* backend: the floorplan inventory, by property id
    waterfall,         \* the last response of scenarioApi.getWaterfall
    inputs,            \* counted inputs so far (see MaxInputs)
    remembered         \* one earlier evaluation of the calculation (history)

\* React state of App
appState == <<properties, selectedProperty, analyses, selectedAnalysis, scenarios,
              loading, calculating, activeTab, editingScenario>>

\* requests in flight and the backend
netState == <<calcCalls, updateCalls, srvScenarios, srvFloorplans>>

vars == <<appState, netState, waterfall, tableRows, pdfDoc, inputs, remembered>>

-----------------------------------------------------------------------------
(* JavaScript numbers as exact rationals                                   *)

Abs(n) == IF n < 0 THEN -n ELSE n

RECURSIVE GCD(_, _)
GCD(a, b) == IF b = 0 THEN a ELSE GCD(b, a % b)

\* the rational n/d (d # 0) in lowest terms with a positive denominator
Norm(n, d) ==
    LET g == GCD(Abs(n), Abs(d))
        s == IF d < 0 THEN -1 ELSE 1
    IN  <<(s * n) \div g, (s * d) \div g>>

Num(n) == <<n, 1>>

\* a + b
Plus(a, b) == Norm(a[1] * b[2] + b[1] * a[2], a[2] * b[2])

\* a - b
Minus(a, b) == Norm(a[1] * b[2] - b[1] * a[2], a[2] * b[2])

\* a * b
Times(a, b) == Norm(a[1] * b[1], a[2] * b[2])

\* a / b, for b # 0 (the code divides by the literals 100 and 12 only)
Over(a, b) == Norm(a[1] * b[2], a[2] * b[1])

\* a > b
Greater(a, b) == a[1] * b[2] > b[1] * a[2]

\* Math.max(a, b)
MathMax(a, b) == IF Greater(b, a) THEN b ELSE a

-----------------------------------------------------------------------------
(* null and undefined                                                      *)

Null == [id |-> "null"]
Undefined == [id |-> "undefined"]

\* scenarios[activeTab]: undefined past the end of the array
At(list, i) == IF i + 1 \in 1..Len(list) THEN list[i + 1] ELSE Undefined

-----------------------------------------------------------------------------
(* The per-floorplan calculation, as exportToPDF computes it               *)

PdfConcession(currentScenario, grossRent) ==
    IF currentScenario.concession_type = "percentage"
    THEN LET concessionAmount ==
                 Times(grossRent, Over(currentScenario.concession_value, Num(100)))
         IN  [concessionAmount |-> concessionAmount,
              netEffective |-> Minus(grossRent, concessionAmount)]
    ELSE IF currentScenario.concession_type = "dollar"
    THEN LET concessionAmount == currentScenario.concession_value
         IN  [concessionAmount |-> concessionAmount,
              netEffective |-> MathMax(Num(0), Minus(grossRent, concessionAmount))]
    ELSE IF currentScenario.concession_type = "free_months"
    THEN [concessionAmount |->
              Times(grossRent, Over(currentScenario.concession_value, Num(12))),
          netEffective |->
              Times(grossRent,
                    Over(Minus(Num(12), currentScenario.concession_value), Num(12)))]
    ELSE [concessionAmount |-> Num(0), netEffective |-> grossRent]

\* variant: the dollar adjustment used only when no percentage is set, the way
\* the comparison table prints a scenario's adjustment
PdfAdjustedBase_EitherOr(fp, currentScenario) ==
    IF currentScenario.base_rent_pct_adj # Num(0)
    THEN Times(fp.base_rent, Plus(Num(1), currentScenario.base_rent_pct_adj))
    ELSE Plus(fp.base_rent, currentScenario.base_rent_dollar_adj)

PdfAdjustedBase(fp, currentScenario) ==
    Plus(Times(fp.base_rent, Plus(Num(1), currentScenario.base_rent_pct_adj)),
         currentScenario.base_rent_dollar_adj)

PdfAdjustedAmenity(fp, currentScenario) ==
    Plus(Times(fp.amenity_rent, Plus(Num(1), currentScenario.amenity_rent_pct_adj)),
         currentScenario.amenity_rent_dollar_adj)

\* variant: concession_value of a percentage concession read as a fraction
PdfRow_PercentAsFraction(fp, currentScenario) ==
    LET adjustedBase == PdfAdjustedBase(fp, currentScenario)
        adjustedAmenity == PdfAdjustedAmenity(fp, currentScenario)
        grossRent == Plus(adjustedBase, adjustedAmenity)
        c == PdfConcession(
                 IF currentScenario.concession_type = "percentage"
                 THEN [currentScenario EXCEPT
                           !.concession_value = Times(@, Num(100))]
                 ELSE currentScenario,
                 grossRent)
    IN  [fp |-> fp.id,
         adjustedBase |-> adjustedBase,
         adjustedAmenity |-> adjustedAmenity,
         grossRent |-> grossRent,
         concessionAmount |-> c.concessionAmount,
         netEffective |-> c.netEffective]

\* variant: the floor at zero applied to every concession type
PdfRow_FloorEverywhere(fp, currentScenario) ==
    LET adjustedBase == PdfAdjustedBase(fp, currentScenario)
        adjustedAmenity == PdfAdjustedAmenity(fp, currentScenario)
        grossRent == Plus(adjustedBase, adjustedAmenity)
        c == PdfConcession(currentScenario, grossRent)
    IN  [fp |-> fp.id,
         adjustedBase |-> adjustedBase,
         adjustedAmenity |-> adjustedAmenity,
         grossRent |-> grossRent,
         concessionAmount |-> c.concessionAmount,
         netEffective |-> MathMax(Num(0), c.netEffective)]

\* one element of floorplanData: the figures before formatCurrency prints them
PdfRow(fp, currentScenario) ==
    LET adjustedBase == PdfAdjustedBase(fp, currentScenario)
        adjustedAmenity == PdfAdjustedAmenity(fp, currentScenario)
        grossRent == Plus(adjustedBase, adjustedAmenity)
        c == PdfConcession(currentScenario, grossRent)
    IN  [fp |-> fp.id,
         adjustedBase |-> adjustedBase,
         adjustedAmenity |-> adjustedAmenity,
         grossRent |-> grossRent,
         concessionAmount |-> c.concessionAmount,
         netEffective |-> c.netEffective]

-----------------------------------------------------------------------------
(* The same calculation, as the floorplan table computes it                *)

\* variant: the dollar concession subtracted without the floor at zero
TableConcession_NoFloor(currentScenario, grossRent) ==
    IF currentScenario.concession_type = "dollar"
    THEN [concessionAmount |-> currentScenario.concession_value,
          netEffective |-> Minus(grossRent, currentScenario.concession_value)]
    ELSE PdfConcession(currentScenario, grossRent)

\* variant: free months amortized over a lease extended by the free months
TableConcession_LeaseExtended(currentScenario, grossRent) ==
    IF currentScenario.concession_type = "free_months"
    THEN [concessionAmount |->
              Times(grossRent, Over(currentScenario.concession_value, Num(12))),
          netEffective |->
              Times(grossRent,
                    Over(Num(12),
                         Plus(Num(12), currentScenario.concession_value)))]
    ELSE PdfConcession(currentScenario, grossRent)

\* variant: concessionAmount initialised from the stored concession_value
TableConcession_StoredValue(currentScenario, grossRent) ==
    IF currentScenario.concession_type = "none"
    THEN [concessionAmount |-> currentScenario.concession_value,
          netEffective |-> grossRent]
    ELSE PdfConcession(currentScenario, grossRent)

TableConcession(currentScenario, grossRent) ==
    IF currentScenario.concession_type = "percentage"
    THEN LET concessionAmount ==
                 Times(grossRent, Over(currentScenario.concession_value, Num(100)))
         IN  [concessionAmount |-> concessionAmount,
              netEffective |-> Minus(grossRent, concessionAmount)]
    ELSE IF currentScenario.concession_type = "dollar"
    THEN LET concessionAmount == currentScenario.concession_value
         IN  [concessionAmount |-> concessionAmount,
              netEffective |-> MathMax(Num(0), Minus(grossRent, concessionAmount))]
    ELSE IF currentScenario.concession_type = "free_months"
    THEN [concessionAmount |->
              Times(grossRent, Over(currentScenario.concession_value, Num(12))),
          netEffective |->
              Times(grossRent,
                    Over(Minus(Num(12), currentScenario.concession_value), Num(12)))]
    ELSE [concessionAmount |-> Num(0), netEffective |-> grossRent]

TableAdjustedBase(fp, currentScenario) ==
    Plus(Times(fp.base_rent, Plus(Num(1), currentScenario.base_rent_pct_adj)),
         currentScenario.base_rent_dollar_adj)

TableAdjustedAmenity(fp, currentScenario) ==
    Plus(Times(fp.amenity_rent, Plus(Num(1), currentScenario.amenity_rent_pct_adj)),
         currentScenario.amenity_rent_dollar_adj)

\* a row that reads the stored scenario of the active tab, when there is one,
\* instead of the scenario it is given
TableRow_FromStoredScenario(fp, currentScenario) ==
    LET used == IF At(scenarios, activeTab) = Undefined
                THEN currentScenario
                ELSE At(scenarios, activeTab)
        adjustedBase == TableAdjustedBase(fp, used)
        adjustedAmenity == TableAdjustedAmenity(fp, used)
        grossRent == Plus(adjustedBase, adjustedAmenity)
        c == TableConcession(used, grossRent)
    IN  [fp |-> fp.id,
         adjustedBase |-> adjustedBase,
         adjustedAmenity |-> adjustedAmenity,
         grossRent |-> grossRent,
         concessionAmount |-> c.concessionAmount,
         netEffective |-> c.netEffective]

\* one <tr> of the floorplan table: the figures before formatCurrency prints them
TableRow(fp, currentScenario) ==
    LET adjustedBase == TableAdjustedBase(fp, currentScenario)
        adjustedAmenity == TableAdjustedAmenity(fp, currentScenario)
        grossRent == Plus(adjustedBase, adjustedAmenity)
        c == TableConcession(currentScenario, grossRent)
    IN  [fp |-> fp.id,
         adjustedBase |-> adjustedBase,
         adjustedAmenity |-> adjustedAmenity,
         grossRent |-> grossRent,
         concessionAmount |-> c.concessionAmount,
         netEffective |-> c.netEffective]

\* the scenario the table is computed from: the form's copy while the active
\* scenario is being edited, the stored one otherwise
TableScenario(scens, tab, editing) ==
    IF editing.id = At(scens, tab).id THEN editing ELSE At(scens, tab)

\* What App's render puts on screen for the floorplan table.  The table exists
\* only past the loading screen, inside the dashboard and inside the tab content.
RenderTable(ld, selProp, selAn, scens, tab, editing) ==
    IF ~ld /\ selProp # Null /\ selAn # Null /\ At(scens, tab) # Undefined
    THEN [shown |-> TRUE,
          scenario |-> TableScenario(scens, tab, editing),
          rows |-> [i \in 1..Len(selProp.floorplans) |->
                        TableRow(selProp.floorplans[i],
                                 TableScenario(scens, tab, editing))]]
    ELSE [shown |-> FALSE, scenario |-> Undefined, rows |-> <<>>]

\* every state change is followed by a render
Rendered ==
    tableRows' = RenderTable(loading', selectedProperty', selectedAnalysis',
                             scenarios', activeTab', editingScenario')

\* the Export PDF button is on screen and enabled
ExportEnabled ==
    /\ ~loading
    /\ selectedProperty # Null
    /\ selectedAnalysis # Null
    /\ Len(scenarios) # 0

NoDoc == [status |-> "none", scenario |-> Undefined, rows |-> <<>>]

\* exportToPDF: the first page's floorplan breakdown.  Reading .name of an
\* undefined currentScenario throws before any row is computed.
ExportToPDF ==
    IF selectedProperty = Null \/ selectedAnalysis = Null
    THEN pdfDoc
    ELSE LET currentScenario == At(scenarios, activeTab)
         IN  IF currentScenario = Undefined
             THEN [status |-> "TypeError", scenario |-> Undefined, rows |-> <<>>]
             ELSE [status |-> "saved",
                   scenario |-> currentScenario,
                   rows |-> [i \in 1..Len(selectedProperty.floorplans) |->
                                 PdfRow(selectedProperty.floorplans[i],
                                        currentScenario)]]

\* a click on the Export PDF button
ClickExportPDF ==
    /\ ExportEnabled
    /\ pdfDoc' = ExportToPDF
    /\ UNCHANGED <<appState, netState, waterfall, tableRows, inputs, remembered>>

-----------------------------------------------------------------------------
(* Input data                                                              *)

\* floorplans per property in the calculation's input space
MaxFloorplans == 1

Rat(n, d) == Norm(n, d)

Floorplan(id, units, sqft, base, amenity) ==
    [id |-> id, unit_count |-> units, square_footage |-> sqft,
     base_rent |-> Num(base), amenity_rent |-> Num(amenity)]

\* floorplans as the backend may return them: Floorplan's fields are plain
\* numbers, so negative and zero values are in the input space
FloorplanInputs ==
    { Floorplan("f", 10, 750, 1000, 100),
      Floorplan("f", 10, 750, 0, 0),
      Floorplan("f", 4, 900, 1200, 0),
      Floorplan("f", 0, 750, 1000, 100),
      Floorplan("f", -1, 750, 1000, 100),
      Floorplan("f", 10, 0, 1000, 100),
      Floorplan("f", 10, 750, -100, 100),
      Floorplan("f", 10, 750, 1000, -50) }

ConcessionTypes == {"none", "percentage", "dollar", "free_months"}

ConcessionValues == {Num(0), Num(1), Num(12), Num(13), Num(50), Num(100),
                     Num(150), Num(5000)}

ScenarioInputs ==
    [id : {"s1"}, analysis_id : {"a1"},
     base_rent_pct_adj : {Rat(-3, 2), Num(0), Rat(1, 20)},
     base_rent_dollar_adj : {Num(-2000), Num(0), Num(50)},
     amenity_rent_pct_adj : {Num(0), Rat(1, 10)},
     amenity_rent_dollar_adj : {Num(-25), Num(0)},
     concession_type : ConcessionTypes,
     concession_value : ConcessionValues,
     results : {Undefined}]

FloorplanLists ==
    UNION { [1..n -> FloorplanInputs] : n \in 1..MaxFloorplans }

-----------------------------------------------------------------------------
(* SpecCalc: the calculation over its input space.  The state is App after  *)
(* loadData and the first calculateScenarios have completed, for one        *)
(* property and one scenario drawn from the inputs.                         *)

InitCalc ==
    \E fps \in FloorplanLists, sc \in ScenarioInputs :
        LET prop == [id |-> "p1", floorplans |-> fps]
            an == [id |-> "a1", property_id |-> "p1", scenarios |-> <<sc>>]
        IN  /\ properties = <<prop>>
            /\ selectedProperty = prop
            /\ analyses = <<an>>
            /\ selectedAnalysis = an
            /\ scenarios = <<sc>>
            /\ loading = FALSE
            /\ calculating = FALSE
            /\ activeTab = 0
            /\ editingScenario = Null
            /\ tableRows = RenderTable(FALSE, prop, an, <<sc>>, 0, Null)
            /\ pdfDoc = NoDoc
            /\ calcCalls = <<>>
            /\ updateCalls = <<>>
            /\ srvScenarios = [id \in {"s1"} |-> sc]
            /\ srvFloorplans = [id \in {"p1"} |-> fps]
            /\ waterfall = Null
            /\ inputs = 0
            /\ remembered = Null

NextCalc == ClickExportPDF

SpecCalc == InitCalc /\ [][NextCalc]_vars

-----------------------------------------------------------------------------
(* The backend behind /api.  Its code is not part of the front end: the    *)
(* calculation is the one the specification gives for the engine.          *)

\* Rent Adjustment Calculator: netEffective of one floorplan
CalculateFloorplanFigures(fp, sc) ==
    LET adjustedBase ==
            Plus(Times(fp.base_rent, Plus(Num(1), sc.base_rent_pct_adj)),
                 sc.base_rent_dollar_adj)
        adjustedAmenity ==
            Plus(Times(fp.amenity_rent, Plus(Num(1), sc.amenity_rent_pct_adj)),
                 sc.amenity_rent_dollar_adj)
        grossRent == Plus(adjustedBase, adjustedAmenity)
    IN  IF sc.concession_type = "percentage"
        THEN Minus(grossRent,
                   Times(grossRent, Over(sc.concession_value, Num(100))))
        ELSE IF sc.concession_type = "dollar"
        THEN MathMax(Num(0), Minus(grossRent, sc.concession_value))
        ELSE IF sc.concession_type = "free_months"
        THEN Times(grossRent, Over(Minus(Num(12), sc.concession_value), Num(12)))
        ELSE grossRent

RECURSIVE SumOver(_, _)
\* the sum of terms[i], terms[i + 1], ... of a sequence of numbers
SumOver(terms, i) ==
    IF i > Len(terms) THEN Num(0)
    ELSE Plus(terms[i], SumOver(terms, i + 1))

\* variant: 0 / 0 left as the not-a-number it is
OverOrZero_NotANumber(a, b) == IF b = Num(0) THEN <<0, 0>> ELSE Over(a, b)

\* a / b, and 0 when the denominator is 0
OverOrZero(a, b) == IF b = Num(0) THEN Num(0) ELSE Over(a, b)

\* variant: revenue per square foot over the floorplans' areas, not weighted by
\* their unit counts
CalculateScenarioResults_UnweightedArea(fps, sc) ==
    LET monthly ==
            SumOver([i \in DOMAIN fps |->
                        Times(CalculateFloorplanFigures(fps[i], sc),
                              Num(fps[i].unit_count))], 1)
        units == SumOver([i \in DOMAIN fps |-> Num(fps[i].unit_count)], 1)
        area == SumOver([i \in DOMAIN fps |-> Num(fps[i].square_footage)], 1)
    IN  [total_annual_revenue |-> Times(monthly, Num(12)),
         avg_rent_per_unit |-> OverOrZero(monthly, units),
         revenue_per_sqft |-> OverOrZero(monthly, area),
         weighted_avg_rent |-> OverOrZero(monthly, units)]

\* variant: the average rent taken per floorplan, not per unit
CalculateScenarioResults_PerFloorplan(fps, sc) ==
    LET monthly ==
            SumOver([i \in DOMAIN fps |->
                        Times(CalculateFloorplanFigures(fps[i], sc),
                              Num(fps[i].unit_count))], 1)
        area ==
            SumOver([i \in DOMAIN fps |->
                        Num(fps[i].square_footage * fps[i].unit_count)], 1)
    IN  [total_annual_revenue |-> Times(monthly, Num(12)),
         avg_rent_per_unit |-> OverOrZero(monthly, Num(Len(fps))),
         revenue_per_sqft |-> OverOrZero(monthly, area),
         weighted_avg_rent |-> OverOrZero(monthly, Num(Len(fps)))]

\* Scenario Aggregator: ScenarioResults of a floorplan list under a scenario
CalculateScenarioResults(fps, sc) ==
    LET monthly ==
            SumOver([i \in DOMAIN fps |->
                        Times(CalculateFloorplanFigures(fps[i], sc),
                              Num(fps[i].unit_count))], 1)
        units == SumOver([i \in DOMAIN fps |-> Num(fps[i].unit_count)], 1)
        area ==
            SumOver([i \in DOMAIN fps |->
                        Num(fps[i].square_footage * fps[i].unit_count)], 1)
    IN  [total_annual_revenue |-> Times(monthly, Num(12)),
         avg_rent_per_unit |-> OverOrZero(monthly, units),
         revenue_per_sqft |-> OverOrZero(monthly, area),
         weighted_avg_rent |-> OverOrZero(monthly, units)]

\* GET /scenarios/{id}/calculate: the stored scenario with its results, computed
\* from the inventory as it is when the request is handled
SrvCalculate(id, propertyId) ==
    [srvScenarios[id] EXCEPT
        !.results = CalculateScenarioResults(srvFloorplans[propertyId],
                                             srvScenarios[id])]

\* the fields a CreateScenarioRequest carries
ParamFields == {"base_rent_pct_adj", "base_rent_dollar_adj",
                "amenity_rent_pct_adj", "amenity_rent_dollar_adj",
                "concession_type", "concession_value"}

Params(sc) == [f \in ParamFields |-> sc[f]]

\* PUT /scenarios/{id}: the stored scenario with the request's fields
SrvUpdate(id, data) ==
    [f \in DOMAIN srvScenarios[id] |->
        IF f \in ParamFields THEN data[f] ELSE srvScenarios[id][f]]

-----------------------------------------------------------------------------
(* The data the backend holds when App mounts                              *)

Scenario(id, analysisId, basePct, cType, cValue) ==
    [id |-> id, analysis_id |-> analysisId,
     base_rent_pct_adj |-> basePct, base_rent_dollar_adj |-> Num(0),
     amenity_rent_pct_adj |-> Num(0), amenity_rent_dollar_adj |-> Num(0),
     concession_type |-> cType, concession_value |-> cValue,
     results |-> Undefined]

InitialScenarios ==
    [id \in {"s1", "s2", "s3"} |->
        IF id = "s1" THEN Scenario("s1", "a1", Num(0), "none", Num(0))
        ELSE IF id = "s2" THEN Scenario("s2", "a1", Rat(1, 20), "dollar", Num(50))
        ELSE Scenario("s3", "a2", Num(0), "none", Num(0))]

InitialFloorplans ==
    [id \in {"p1", "p2"} |->
        IF id = "p1" THEN <<Floorplan("f1", 10, 750, 1000, 100)>>
        ELSE <<Floorplan("f2", 4, 900, 1200, 0)>>]

\* GET /properties
PropertyList ==
    <<[id |-> "p1", floorplans |-> srvFloorplans["p1"]],
      [id |-> "p2", floorplans |-> srvFloorplans["p2"]]>>

\* GET /analyses: a1 (two scenarios) and a2 (one) of p1; p2 has none
AnalysisList ==
    <<[id |-> "a1", property_id |-> "p1",
       scenarios |-> <<srvScenarios["s1"], srvScenarios["s2"]>>],
      [id |-> "a2", property_id |-> "p1",
       scenarios |-> <<srvScenarios["s3"]>>]>>

-----------------------------------------------------------------------------
(* App: effects, requests and event handlers                               *)

\* selections, form changes, saves, resets and floorplan requests in one run
\* (tab, edit and export clicks are not counted)
MaxInputs == 2

\* one more counted input
Input == inputs < MaxInputs /\ inputs' = inputs + 1

Pending == [id |-> "pending"]

Remove(list, k) == [i \in 1..(Len(list) - 1) |-> IF i < k THEN list[i] ELSE list[i + 1]]

\* useEffect on [selectedProperty, analyses]: filteredAnalyses
FilteredAnalyses(selProp, ans) ==
    IF selProp # Null
    THEN SelectSeq(ans, LAMBDA a : a.property_id = selProp.id)
    ELSE ans

\* useEffect on [selectedProperty, analyses]: the analysis it selects
EffectSelectedAnalysis(selProp, ans, selAn) ==
    LET filtered == FilteredAnalyses(selProp, ans)
    IN  IF selProp # Null
        THEN IF Len(filtered) > 0 THEN filtered[1] ELSE Null
        ELSE IF Len(ans) > 0 THEN ans[1] ELSE selAn

\* calculateAllScenarios(analysis): one calculate request per scenario of the
\* analysis, all sent at once and awaited together.  seen records the
\* inventories the requests of this batch were computed from.
NewCalcCall(analysis) ==
    [analysis |-> analysis.id,
     property |-> analysis.property_id,
     ids |-> [i \in 1..Len(analysis.scenarios) |-> analysis.scenarios[i].id],
     responses |-> [i \in 1..Len(analysis.scenarios) |-> Pending],
     seen |-> {}]

\* useEffect on [selectedAnalysis], run after selectedAnalysis became newAn:
\* calculateScenarios() up to its await
SelectedAnalysisEffect(newAn) ==
    IF newAn # selectedAnalysis /\ newAn # Null
    THEN /\ calculating' = TRUE
         /\ calcCalls' = Append(calcCalls, NewCalcCall(newAn))
    ELSE UNCHANGED <<calculating, calcCalls>>

\* loadData resolves: both lists arrive, the first property is selected, and the
\* effects select its first analysis and start the calculation
LoadDataDone ==
    /\ loading
    /\ properties' = PropertyList
    /\ analyses' = AnalysisList
    /\ selectedProperty' =
           (IF Len(PropertyList) > 0 THEN PropertyList[1] ELSE selectedProperty)
    /\ loading' = FALSE
    /\ selectedAnalysis' =
           EffectSelectedAnalysis(selectedProperty', analyses', selectedAnalysis)
    /\ SelectedAnalysisEffect(selectedAnalysis')
    /\ UNCHANGED <<scenarios, activeTab, editingScenario, updateCalls,
                   srvScenarios, srvFloorplans, inputs, remembered>>
    /\ pdfDoc' = NoDoc
    /\ UNCHANGED waterfall
    /\ Rendered

\* loadData rejects: the catch only leaves the loading screen
LoadDataFailed ==
    /\ loading
    /\ loading' = FALSE
    /\ UNCHANGED <<properties, selectedProperty, analyses, selectedAnalysis,
                   scenarios, calculating, activeTab, editingScenario, netState,
                   inputs, remembered>>
    /\ pdfDoc' = NoDoc
    /\ UNCHANGED waterfall
    /\ Rendered

\* the property <select>: onChange with one of its options
SelectProperty ==
    /\ ~loading
    /\ \E k \in 1..Len(properties) :
        /\ properties[k] # selectedProperty
        /\ selectedProperty' = properties[k]
        /\ selectedAnalysis' =
               EffectSelectedAnalysis(properties[k], analyses, selectedAnalysis)
        /\ SelectedAnalysisEffect(selectedAnalysis')
    /\ Input
    /\ UNCHANGED <<properties, analyses, scenarios, loading, activeTab,
                   editingScenario, updateCalls, srvScenarios, srvFloorplans,
                   remembered>>
    /\ pdfDoc' = NoDoc
    /\ UNCHANGED waterfall
    /\ Rendered

\* the analysis <select>, shown when filteredAnalyses is not empty
SelectAnalysis ==
    /\ ~loading
    /\ \E k \in 1..Len(FilteredAnalyses(selectedProperty, analyses)) :
        LET analysis == FilteredAnalyses(selectedProperty, analyses)[k]
        IN  /\ analysis # selectedAnalysis
            /\ selectedAnalysis' = analysis
            /\ SelectedAnalysisEffect(analysis)
    /\ Input
    /\ UNCHANGED <<properties, selectedProperty, analyses, scenarios, loading,
                   activeTab, editingScenario, updateCalls, srvScenarios,
                   srvFloorplans, remembered>>
    /\ pdfDoc' = NoDoc
    /\ UNCHANGED waterfall
    /\ Rendered

\* the backend answers one calculate request of a batch
ServerCalculate ==
    /\ \E c \in 1..Len(calcCalls) : \E k \in 1..Len(calcCalls[c].ids) :
        /\ calcCalls[c].responses[k] = Pending
        /\ calcCalls' =
               [calcCalls EXCEPT
                   ![c].responses[k] =
                       SrvCalculate(calcCalls[c].ids[k], calcCalls[c].property),
                   ![c].seen = @ \cup {srvFloorplans[calcCalls[c].property]}]
    /\ UNCHANGED <<appState, updateCalls, srvScenarios, srvFloorplans, tableRows,
                   inputs, remembered>>
    /\ pdfDoc' = NoDoc
    /\ UNCHANGED waterfall

AllAnswered(call) ==
    \A k \in 1..Len(call.responses) : call.responses[k] # Pending

\* Promise.all resolves once every request of the batch is answered, and
\* calculateScenarios continues after its await: setScenarios, then the finally
CalcResolved ==
    /\ \E c \in 1..Len(calcCalls) :
        /\ AllAnswered(calcCalls[c])
        /\ scenarios' = calcCalls[c].responses
        /\ calcCalls' = Remove(calcCalls, c)
    /\ calculating' = FALSE
    /\ UNCHANGED <<properties, selectedProperty, analyses, selectedAnalysis,
                   loading, activeTab, editingScenario, updateCalls, srvScenarios,
                   srvFloorplans, inputs, remembered>>
    /\ pdfDoc' = NoDoc
    /\ UNCHANGED waterfall
    /\ Rendered

\* a calculate request of a batch fails (apiCall throws): Promise.all rejects at
\* once, whatever else is pending, and calculateScenarios runs its catch and its
\* finally
CalcRejected ==
    /\ \E c \in 1..Len(calcCalls) :
        /\ ~AllAnswered(calcCalls[c])
        /\ calcCalls' = Remove(calcCalls, c)
    /\ calculating' = FALSE
    /\ UNCHANGED <<properties, selectedProperty, analyses, selectedAnalysis,
                   scenarios, loading, activeTab, editingScenario, updateCalls,
                   srvScenarios, srvFloorplans, inputs, remembered>>
    /\ pdfDoc' = NoDoc
    /\ UNCHANGED waterfall
    /\ Rendered

\* the dashboard is on screen
DashboardShown == ~loading /\ selectedProperty # Null /\ selectedAnalysis # Null

\* the tab content (header, form, floorplan table) is on screen
TabContentShown == DashboardShown /\ At(scenarios, activeTab) # Undefined

\* the assumptions form is on screen
FormShown == TabContentShown /\ editingScenario.id = At(scenarios, activeTab).id

\* a scenario tab button
ClickTab ==
    /\ DashboardShown
    /\ \E index \in 0..(Len(scenarios) - 1) :
        activeTab' = index
    /\ editingScenario' = Null
    /\ UNCHANGED <<properties, selectedProperty, analyses, selectedAnalysis,
                   scenarios, loading, calculating, netState, inputs, remembered>>
    /\ pdfDoc' = NoDoc
    /\ UNCHANGED waterfall
    /\ Rendered

\* the Edit Assumptions button
ClickEdit ==
    /\ TabContentShown
    /\ ~FormShown
    /\ editingScenario' = At(scenarios, activeTab)
    /\ UNCHANGED <<properties, selectedProperty, analyses, selectedAnalysis,
                   scenarios, loading, calculating, activeTab, netState,
                   inputs, remembered>>
    /\ pdfDoc' = NoDoc
    /\ UNCHANGED waterfall
    /\ Rendered

\* What the user typed into a number input, as parseFloat reads it: a number, or
\* NaN for an empty or unreadable field
NaN == <<0, 0>>

\* x || 0 for a number x
OrZero(x) == IF x = NaN \/ x = Num(0) THEN Num(0) ELSE x

\* parseFloat(e.target.value) / 100 || 0
PercentField(typed) == OrZero(IF typed = NaN THEN NaN ELSE Over(typed, Num(100)))

\* parseFloat(e.target.value) || 0
NumberField(typed) == OrZero(typed)

TypedPercents == {NaN, Num(5)}
TypedAmounts == {Num(50)}
SelectableTypes == {"none", "dollar", "free_months"}

\* the onChange handlers of the assumptions form
EditField ==
    /\ FormShown
    /\ \/ \E typed \in TypedPercents :
              editingScenario' =
                  [editingScenario EXCEPT !.base_rent_pct_adj = PercentField(typed)]
       \/ \E typed \in TypedAmounts :
              editingScenario' =
                  [editingScenario EXCEPT !.base_rent_dollar_adj = NumberField(typed)]
       \/ \E typed \in TypedPercents :
              editingScenario' =
                  [editingScenario EXCEPT
                      !.amenity_rent_pct_adj = PercentField(typed)]
       \/ \E typed \in TypedAmounts :
              editingScenario' =
                  [editingScenario EXCEPT
                      !.amenity_rent_dollar_adj = NumberField(typed)]
       \/ \E type \in SelectableTypes :
              editingScenario' =
                  [editingScenario EXCEPT !.concession_type = type,
                                          !.concession_value = Num(0)]
       \/ /\ editingScenario.concession_type # "none"
          /\ \E typed \in TypedAmounts :
              editingScenario' =
                  [editingScenario EXCEPT !.concession_value = NumberField(typed)]
    /\ Input
    /\ UNCHANGED <<properties, selectedProperty, analyses, selectedAnalysis,
                   scenarios, loading, calculating, activeTab, netState,
                   remembered>>
    /\ pdfDoc' = NoDoc
    /\ UNCHANGED waterfall
    /\ Rendered

\* updateScenario / resetScenario up to the first await: the update request
NewUpdateCall(scenario, data) ==
    [id |-> scenario.id, analysis |-> scenario.analysis_id, data |-> data,
     stage |-> "update", response |-> Pending]

\* the Save Scenario button: updateScenario(editingScenario)
ClickSave ==
    /\ FormShown
    /\ Input
    /\ updateCalls' =
           Append(updateCalls,
                  NewUpdateCall(editingScenario, Params(editingScenario)))
    /\ UNCHANGED <<appState, calcCalls, srvScenarios, srvFloorplans, tableRows,
                   remembered>>
    /\ pdfDoc' = NoDoc
    /\ UNCHANGED waterfall

\* the request body resetScenario sends
ResetData ==
    [f \in ParamFields |->
        IF f = "concession_type" THEN "none" ELSE Num(0)]

\* the Reset button: resetScenario(scenarios[activeTab]), after confirm()
ClickReset ==
    /\ TabContentShown
    /\ \/ /\ Input
          /\ updateCalls' =
                 Append(updateCalls,
                        NewUpdateCall(At(scenarios, activeTab), ResetData))
       \/ UNCHANGED <<updateCalls, inputs>>
    /\ UNCHANGED <<appState, calcCalls, srvScenarios, srvFloorplans, tableRows,
                   remembered>>
    /\ pdfDoc' = NoDoc
    /\ UNCHANGED waterfall

\* the property an analysis belongs to, as the backend stores it
PropertyOf(analysisId) ==
    LET k == CHOOSE k \in 1..Len(AnalysisList) : AnalysisList[k].id = analysisId
    IN  AnalysisList[k].property_id

\* variant: the drivers' own effects only, without the step that carries what
\* they do not explain together
BuildWaterfall_DriversOnly(fps, baseline, target) ==
    LET Total(sc) == CalculateScenarioResults(fps, sc).total_annual_revenue
        baseRentOnly ==
            [baseline EXCEPT !.base_rent_pct_adj = target.base_rent_pct_adj,
                             !.base_rent_dollar_adj = target.base_rent_dollar_adj]
        amenityOnly ==
            [baseline EXCEPT
                !.amenity_rent_pct_adj = target.amenity_rent_pct_adj,
                !.amenity_rent_dollar_adj = target.amenity_rent_dollar_adj]
        concessionOnly ==
            [baseline EXCEPT !.concession_type = target.concession_type,
                             !.concession_value = target.concession_value]
    IN  <<[label |-> "Baseline", value |-> Total(baseline), type |-> "base"],
          [label |-> "Base Rent Adjustment",
           value |-> Minus(Total(baseRentOnly), Total(baseline)),
           type |-> "delta"],
          [label |-> "Amenity Rent Adjustment",
           value |-> Minus(Total(amenityOnly), Total(baseline)),
           type |-> "delta"],
          [label |-> "Concession",
           value |-> Minus(Total(concessionOnly), Total(baseline)),
           type |-> "delta"],
          [label |-> "Final", value |-> Total(target), type |-> "final"]>>

\* Waterfall Builder: the steps from the baseline's total to the target's over
\* one inventory.  Each driver's step is its effect with the other drivers held
\* at the baseline; the last delta carries what the drivers do not explain.
BuildWaterfall(fps, baseline, target) ==
    LET Total(sc) == CalculateScenarioResults(fps, sc).total_annual_revenue
        baseRentOnly ==
            [baseline EXCEPT !.base_rent_pct_adj = target.base_rent_pct_adj,
                             !.base_rent_dollar_adj = target.base_rent_dollar_adj]
        amenityOnly ==
            [baseline EXCEPT
                !.amenity_rent_pct_adj = target.amenity_rent_pct_adj,
                !.amenity_rent_dollar_adj = target.amenity_rent_dollar_adj]
        concessionOnly ==
            [baseline EXCEPT !.concession_type = target.concession_type,
                             !.concession_value = target.concession_value]
        baseRent == Minus(Total(baseRentOnly), Total(baseline))
        amenity == Minus(Total(amenityOnly), Total(baseline))
        concession == Minus(Total(concessionOnly), Total(baseline))
        combined ==
            Minus(Minus(Total(target), Total(baseline)),
                  Plus(baseRent, Plus(amenity, concession)))
    IN  <<[label |-> "Baseline", value |-> Total(baseline), type |-> "base"],
          [label |-> "Base Rent Adjustment", value |-> baseRent, type |-> "delta"],
          [label |-> "Amenity Rent Adjustment", value |-> amenity,
           type |-> "delta"],
          [label |-> "Concession", value |-> concession, type |-> "delta"],
          [label |-> "Combined Effect", value |-> combined, type |-> "delta"],
          [label |-> "Final", value |-> Total(target), type |-> "final"]>>

\* GET /scenarios/{id}/waterfall?baseline_scenario_id=...: refused when the two
\* scenarios are not over the same inventory
SrvWaterfall(scenarioId, baselineId) ==
    LET propertyId == PropertyOf(srvScenarios[scenarioId].analysis_id)
    IN  IF PropertyOf(srvScenarios[baselineId].analysis_id) # propertyId
        THEN [error |-> "MismatchedInventory", waterfall |-> <<>>]
        ELSE [error |-> "",
              waterfall |-> BuildWaterfall(srvFloorplans[propertyId],
                                           srvScenarios[baselineId],
                                           srvScenarios[scenarioId])]

\* the backend answers the update request: on success the function goes on to
\* send the calculate request, on failure its catch ends it
ServerUpdate ==
    /\ \E u \in 1..Len(updateCalls) :
        /\ updateCalls[u].stage = "update"
        /\ \/ /\ srvScenarios' =
                     [srvScenarios EXCEPT
                         ![updateCalls[u].id] =
                             SrvUpdate(updateCalls[u].id, updateCalls[u].data)]
              /\ updateCalls' = [updateCalls EXCEPT ![u].stage = "calculate"]
           \/ /\ updateCalls' = Remove(updateCalls, u)
              /\ UNCHANGED srvScenarios
    /\ UNCHANGED <<appState, calcCalls, srvFloorplans, tableRows, inputs,
                   remembered>>
    /\ pdfDoc' = NoDoc
    /\ UNCHANGED waterfall

\* variant: a failed calculate request closes the form like a successful one
ServerRecalculate_FailureClosesForm ==
    /\ \E u \in 1..Len(updateCalls) :
        /\ updateCalls[u].stage = "calculate"
        /\ \/ /\ updateCalls' =
                     [updateCalls EXCEPT
                         ![u].stage = "settle",
                         ![u].response =
                             SrvCalculate(updateCalls[u].id,
                                          PropertyOf(updateCalls[u].analysis))]
              /\ UNCHANGED editingScenario
           \/ /\ updateCalls' = Remove(updateCalls, u)
              /\ editingScenario' = Null
    /\ UNCHANGED <<properties, selectedProperty, analyses, selectedAnalysis,
                   scenarios, loading, calculating, activeTab, calcCalls,
                   srvScenarios, srvFloorplans, tableRows, inputs, remembered>>
    /\ pdfDoc' = NoDoc
    /\ UNCHANGED waterfall

\* the backend answers the calculate request that follows an update
ServerRecalculate ==
    /\ \E u \in 1..Len(updateCalls) :
        /\ updateCalls[u].stage = "calculate"
        /\ \/ updateCalls' =
                  [updateCalls EXCEPT
                      ![u].stage = "settle",
                      ![u].response =
                          SrvCalculate(updateCalls[u].id,
                                       PropertyOf(updateCalls[u].analysis))]
           \/ updateCalls' = Remove(updateCalls, u)
    /\ UNCHANGED <<appState, calcCalls, srvScenarios, srvFloorplans, tableRows,
                   inputs, remembered>>
    /\ pdfDoc' = NoDoc
    /\ UNCHANGED waterfall

\* variant: the entry of the active tab replaced, whatever its id
ReplaceById_AtActiveTab(prev, calculated) ==
    [i \in 1..Len(prev) |-> IF i = activeTab + 1 THEN calculated ELSE prev[i]]

\* prev.map(s => s.id === calculated.id ? calculated : s)
ReplaceById(prev, calculated) ==
    [i \in 1..Len(prev) |->
        IF prev[i].id = calculated.id THEN calculated ELSE prev[i]]

\* updateScenario / resetScenario continue after the calculate response
UpdateSettled ==
    /\ \E u \in 1..Len(updateCalls) :
        /\ updateCalls[u].stage = "settle"
        /\ scenarios' = ReplaceById(scenarios, updateCalls[u].response)
        /\ updateCalls' = Remove(updateCalls, u)
    /\ editingScenario' = Null
    /\ UNCHANGED <<properties, selectedProperty, analyses, selectedAnalysis,
                   loading, calculating, activeTab, calcCalls, srvScenarios,
                   srvFloorplans, inputs, remembered>>
    /\ pdfDoc' = NoDoc
    /\ UNCHANGED waterfall
    /\ Rendered

-----------------------------------------------------------------------------
(* Spec: App from its mount on                                             *)

Init ==
    /\ properties = <<>>
    /\ selectedProperty = Null
    /\ analyses = <<>>
    /\ selectedAnalysis = Null
    /\ scenarios = <<>>
    /\ loading = TRUE
    /\ calculating = FALSE
    /\ activeTab = 0
    /\ editingScenario = Null
    /\ tableRows = RenderTable(TRUE, Null, Null, <<>>, 0, Null)
    /\ pdfDoc = NoDoc
    /\ calcCalls = <<>>
    /\ updateCalls = <<>>
    /\ srvScenarios = InitialScenarios
    /\ srvFloorplans = InitialFloorplans
    /\ waterfall = Null
    /\ inputs = 0
    /\ remembered = Null

Next ==
    \/ LoadDataDone
    \/ LoadDataFailed
    \/ SelectProperty
    \/ SelectAnalysis
    \/ ServerCalculate
    \/ CalcResolved
    \/ CalcRejected
    \/ ClickTab
    \/ ClickEdit
    \/ EditField
    \/ ClickSave
    \/ ClickReset
    \/ ServerUpdate
    \/ ServerRecalculate
    \/ UpdateSettled
    \/ ClickExportPDF

Spec == Init /\ [][Next]_vars

-----------------------------------------------------------------------------
(* SpecBatch: batch recalculation while the floorplan inventory changes.   *)
(* floorplanApi's requests come from any client of the backend.            *)

\* floorplans one property may hold
MaxInventory == 2

\* the body of a create or update request
FloorplanRequest == Floorplan("new", 5, 600, 1100, 50)

\* an id the backend gives a created floorplan
FreshId(fps) ==
    CHOOSE id \in {"f3", "f4", "f5", "f6", "f7"} :
        \A i \in 1..Len(fps) : fps[i].id # id

\* floorplanApi.create: POST /floorplans
FloorplanCreate ==
    /\ \E pid \in DOMAIN srvFloorplans :
        /\ Len(srvFloorplans[pid]) < MaxInventory
        /\ srvFloorplans' =
               [srvFloorplans EXCEPT
                   ![pid] = Append(@, [FloorplanRequest EXCEPT
                                           !.id = FreshId(srvFloorplans[pid])])]
    /\ Input
    /\ UNCHANGED <<appState, calcCalls, updateCalls, srvScenarios, tableRows,
                   remembered>>
    /\ pdfDoc' = NoDoc
    /\ UNCHANGED waterfall

\* floorplanApi.update: PUT /floorplans/{id}
FloorplanUpdate ==
    /\ \E pid \in DOMAIN srvFloorplans : \E i \in 1..Len(srvFloorplans[pid]) :
        /\ srvFloorplans[pid][i] #
               [FloorplanRequest EXCEPT !.id = srvFloorplans[pid][i].id]
        /\ srvFloorplans' =
               [srvFloorplans EXCEPT
                   ![pid][i] = [FloorplanRequest EXCEPT
                                   !.id = srvFloorplans[pid][i].id]]
    /\ Input
    /\ UNCHANGED <<appState, calcCalls, updateCalls, srvScenarios, tableRows,
                   remembered>>
    /\ pdfDoc' = NoDoc
    /\ UNCHANGED waterfall

\* floorplanApi.delete: DELETE /floorplans/{id}
FloorplanDelete ==
    /\ \E pid \in DOMAIN srvFloorplans : \E i \in 1..Len(srvFloorplans[pid]) :
        srvFloorplans' = [srvFloorplans EXCEPT ![pid] = Remove(@, i)]
    /\ Input
    /\ UNCHANGED <<appState, calcCalls, updateCalls, srvScenarios, tableRows,
                   remembered>>
    /\ pdfDoc' = NoDoc
    /\ UNCHANGED waterfall

NextBatch ==
    \/ LoadDataDone
    \/ SelectProperty
    \/ SelectAnalysis
    \/ ServerCalculate
    \/ CalcResolved
    \/ CalcRejected
    \/ FloorplanCreate
    \/ FloorplanUpdate
    \/ FloorplanDelete

SpecBatch == Init /\ [][NextBatch]_vars

-----------------------------------------------------------------------------
(* SpecEval: Spec with a record of one earlier evaluation                  *)

\* the evaluations whose figures are in front of the user: the rows of the
\* table on screen and the rows of a document just exported, each with the
\* floorplan and the scenario parameters it was computed from
Evaluations ==
    { [fp |-> selectedProperty.floorplans[i],
       params |-> Params(tableRows.scenario),
       row |-> tableRows.rows[i]] :
          i \in IF tableRows.shown THEN DOMAIN tableRows.rows ELSE {} }
    \cup
    { [fp |-> selectedProperty.floorplans[i],
       params |-> Params(pdfDoc.scenario),
       row |-> pdfDoc.rows[i]] :
          i \in IF pdfDoc.status = "saved" THEN DOMAIN pdfDoc.rows ELSE {} }

\* keep one of the current evaluations, to compare later ones with
Remember ==
    /\ remembered = Null
    /\ \E e \in Evaluations : remembered' = [id |-> "evaluation", eval |-> e]
    /\ UNCHANGED <<appState, netState, waterfall, tableRows, pdfDoc, inputs>>

NextEval == Next \/ Remember

SpecEval == Init /\ [][NextEval]_vars

-----------------------------------------------------------------------------
(* SpecAgg: the aggregation and the waterfall over their input space: App   *)
(* from its mount on, over a backend whose inventory and whose scenarios    *)
(* s1 (the baseline of a waterfall) and s2 (its target) are drawn from the  *)
(* inputs.                                                                  *)

\* floorplans of an inventory, zero-unit floorplans included
InventoryInputs ==
    { Floorplan("f", 10, 750, 1000, 100),
      Floorplan("f", 4, 900, 1200, 0),
      Floorplan("f", 0, 750, 1000, 100) }

Inventories ==
    UNION { [1..n -> InventoryInputs] : n \in 0..MaxInventory }

BaselineInputs ==
    { Scenario("s1", "a1", Num(0), "none", Num(0)),
      Scenario("s1", "a1", Rat(1, 20), "dollar", Num(50)) }

TargetInputs ==
    [id : {"s2"}, analysis_id : {"a1"},
     base_rent_pct_adj : {Num(0), Rat(1, 20)},
     base_rent_dollar_adj : {Num(0), Num(50)},
     amenity_rent_pct_adj : {Num(0), Rat(1, 10)},
     amenity_rent_dollar_adj : {Num(0)},
     concession_type : ConcessionTypes,
     concession_value : {Num(50)},
     results : {Undefined}]

InitAgg ==
    \E fps \in Inventories, baseline \in BaselineInputs, target \in TargetInputs :
        /\ properties = <<>>
        /\ selectedProperty = Null
        /\ analyses = <<>>
        /\ selectedAnalysis = Null
        /\ scenarios = <<>>
        /\ loading = TRUE
        /\ calculating = FALSE
        /\ activeTab = 0
        /\ editingScenario = Null
        /\ tableRows = RenderTable(TRUE, Null, Null, <<>>, 0, Null)
        /\ pdfDoc = NoDoc
        /\ calcCalls = <<>>
        /\ updateCalls = <<>>
        /\ srvScenarios =
               [id \in {"s1", "s2", "s3"} |->
                   IF id = "s1" THEN baseline
                   ELSE IF id = "s2" THEN target
                   ELSE InitialScenarios[id]]
        /\ srvFloorplans = [InitialFloorplans EXCEPT !["p1"] = fps]
        /\ waterfall = Null
        /\ inputs = 0
        /\ remembered = Null

\* scenarioApi.getWaterfall(scenarioId, baselineId) for two of the calculated
\* scenarios, and the backend's answer
GetWaterfall ==
    /\ \E i \in 1..Len(scenarios), j \in 1..Len(scenarios) :
        /\ i # j
        /\ waterfall' =
               [scenario |-> scenarios[i].id, baseline |-> scenarios[j].id,
                response |-> SrvWaterfall(scenarios[i].id, scenarios[j].id)]
    /\ UNCHANGED <<appState, netState, tableRows, inputs, remembered>>
    /\ pdfDoc' = NoDoc

NextAgg ==
    \/ LoadDataDone
    \/ ServerCalculate
    \/ CalcResolved
    \/ GetWaterfall
    \/ ClickExportPDF

SpecAgg == InitAgg /\ [][NextAgg]_vars

-----------------------------------------------------------------------------
(* Claims about the calculation (SpecCalc)                                 *)

\* P holds of every row exportToPDF has written and of every row on screen,
\* each taken with the floorplan and the scenario it was computed from
EveryRow(P(_, _, _)) ==
    /\ pdfDoc.status = "saved" =>
           \A i \in 1..Len(pdfDoc.rows) :
               P(selectedProperty.floorplans[i], pdfDoc.scenario, pdfDoc.rows[i])
    /\ tableRows.shown =>
           \A i \in 1..Len(tableRows.rows) :
               P(selectedProperty.floorplans[i], tableRows.scenario,
                 tableRows.rows[i])

\* the PDF has been exported and the table is on screen, and P holds of a row
\* of each
SomeRowOfEach(P(_, _, _)) ==
    /\ pdfDoc.status = "saved"
    /\ \E i \in 1..Len(pdfDoc.rows) :
           P(selectedProperty.floorplans[i], pdfDoc.scenario, pdfDoc.rows[i])
    /\ tableRows.shown
    /\ \E i \in 1..Len(tableRows.rows) :
           P(selectedProperty.floorplans[i], tableRows.scenario, tableRows.rows[i])

Zero == Num(0)
IsNegative(a) == Greater(Zero, a)
IsPositive(a) == Greater(a, Zero)
AtMost(a, b) == ~Greater(a, b)

C1_Row(fp, sc, row) ==
    /\ row.adjustedBase =
           Plus(Plus(fp.base_rent, Times(fp.base_rent, sc.base_rent_pct_adj)),
                sc.base_rent_dollar_adj)
    /\ row.adjustedAmenity =
           Plus(Plus(fp.amenity_rent,
                     Times(fp.amenity_rent, sc.amenity_rent_pct_adj)),
                sc.amenity_rent_dollar_adj)
    /\ row.grossRent = Plus(row.adjustedBase, row.adjustedAmenity)

\* C1: in the PDF export and in the on-screen table alike, adjustedBase is
\* base_rent * (1 + base_rent_pct_adj) + base_rent_dollar_adj, adjustedAmenity is
\* amenity_rent * (1 + amenity_rent_pct_adj) + amenity_rent_dollar_adj and
\* grossRent is their sum: the percentage first, the dollar amount on top, also
\* when both are non-zero.
C1_PctThenDollar == EveryRow(C1_Row)

C1_BothNonZero(fp, sc, row) ==
    /\ sc.base_rent_pct_adj # Zero /\ sc.base_rent_dollar_adj # Zero
    /\ sc.amenity_rent_pct_adj # Zero /\ sc.amenity_rent_dollar_adj # Zero
    /\ fp.base_rent # Zero /\ fp.amenity_rent # Zero

C1_Witness == SomeRowOfEach(C1_BothNonZero)

C2_Row(fp, sc, row) ==
    sc.concession_type = "dollar" =>
        /\ ~IsNegative(row.netEffective)
        /\ row.netEffective =
               (IF IsPositive(Minus(row.grossRent, sc.concession_value))
                THEN Minus(row.grossRent, sc.concession_value)
                ELSE Zero)

\* C2: with a dollar concession netEffective is max(0, grossRent -
\* concession_value) and so never below 0, also when the adjustments make
\* grossRent negative and whatever the concession's size.
C2_DollarFlooredAtZero == EveryRow(C2_Row)

C2_Clamped(fp, sc, row) ==
    /\ sc.concession_type = "dollar"
    /\ IsNegative(Minus(row.grossRent, sc.concession_value))
    /\ IsNegative(row.grossRent)
    /\ row.netEffective = Zero

C2_Witness == SomeRowOfEach(C2_Clamped)

C3_InRange(sc) ==
    /\ sc.concession_type = "percentage"
    /\ AtMost(Zero, sc.concession_value)
    /\ AtMost(sc.concession_value, Num(100))

C3_Row(fp, sc, row) ==
    C3_InRange(sc) =>
        /\ row.netEffective =
               Times(row.grossRent,
                     Minus(Num(1), Over(sc.concession_value, Num(100))))
        /\ ~IsNegative(row.grossRent) =>
               /\ AtMost(Zero, row.netEffective)
               /\ AtMost(row.netEffective, row.grossRent)

\* C3: with a percentage concession of x in [0, 100], netEffective is
\* G * (1 - x/100) for the gross rent G, and lies in [0, G] when G >= 0.
C3_PercentageOfGross == EveryRow(C3_Row)

C3_Halfway(fp, sc, row) ==
    /\ C3_InRange(sc)
    /\ sc.concession_value = Num(50)
    /\ IsPositive(row.grossRent)
    /\ row.netEffective = Over(row.grossRent, Num(2))

C3_Witness == SomeRowOfEach(C3_Halfway)

C4_Row(fp, sc, row) ==
    sc.concession_type = "free_months" =>
        /\ sc.concession_value = Zero =>
               /\ row.netEffective = row.grossRent
               /\ row.netEffective =
                      PdfRow(fp, [sc EXCEPT !.concession_type = "none"]).netEffective
               /\ row.netEffective =
                      TableRow(fp, [sc EXCEPT !.concession_type = "none"]).netEffective
        /\ sc.concession_value = Num(12) => row.netEffective = Zero

\* C4: a free_months concession of 0 months gives the netEffective that
\* concession_type none gives (the gross rent), and one of 12 months gives
\* netEffective 0, for every floorplan and rent adjustment.
C4_FreeMonthsEnds == EveryRow(C4_Row)

C4_FullYear(fp, sc, row) ==
    /\ sc.concession_type = "free_months"
    /\ sc.concession_value = Num(12)
    /\ row.grossRent # Zero
    /\ row.netEffective = Zero

C4_Witness == SomeRowOfEach(C4_FullYear)

C5_Baseline(sc) ==
    /\ sc.base_rent_pct_adj = Zero /\ sc.base_rent_dollar_adj = Zero
    /\ sc.amenity_rent_pct_adj = Zero /\ sc.amenity_rent_dollar_adj = Zero
    /\ sc.concession_type = "none"

C5_Row(fp, sc, row) ==
    C5_Baseline(sc) =>
        /\ row.netEffective = Plus(fp.base_rent, fp.amenity_rent)
        /\ row.concessionAmount = Zero

\* C5: with the four rent adjustments at zero and concession_type none,
\* netEffective is base_rent + amenity_rent and concessionAmount is 0, whatever
\* concession_value the scenario stores.
C5_BaselineIsIdentity == EveryRow(C5_Row)

C5_StoredValue(fp, sc, row) ==
    /\ C5_Baseline(sc)
    /\ sc.concession_value # Zero
    /\ IsPositive(fp.base_rent) /\ IsPositive(fp.amenity_rent)

C5_Witness == SomeRowOfEach(C5_StoredValue)

C6_Row(fp, sc, row) ==
    IsPositive(row.grossRent) =>
        /\ (sc.concession_type = "percentage"
              /\ Greater(sc.concession_value, Num(100))) =>
               /\ IsNegative(row.netEffective)
               /\ row.netEffective =
                      Minus(row.grossRent,
                            Over(Times(row.grossRent, sc.concession_value),
                                 Num(100)))
        /\ (sc.concession_type = "free_months"
              /\ Greater(sc.concession_value, Num(12))) =>
               /\ IsNegative(row.netEffective)
               /\ row.netEffective =
                      Over(Times(row.grossRent,
                                 Minus(Num(12), sc.concession_value)),
                           Num(12))

C6_OutOfRange(sc) ==
    \/ sc.concession_type = "percentage" /\ Greater(sc.concession_value, Num(100))
    \/ sc.concession_type = "free_months" /\ Greater(sc.concession_value, Num(12))

\* C6: percentage and free_months concessions are not clamped: with a positive
\* gross rent G, a percentage above 100 gives G - G*x/100 < 0 and more than 12
\* free months give G*(12-v)/12 < 0; and such a scenario is not rejected, the
\* export writes its rows and the table shows them.
C6_NotClamped ==
    /\ EveryRow(C6_Row)
    /\ (C6_OutOfRange(At(scenarios, activeTab)) /\ editingScenario = Null) =>
           /\ tableRows.shown
           /\ tableRows.scenario = At(scenarios, activeTab)
           /\ Len(tableRows.rows) = Len(selectedProperty.floorplans)
           /\ pdfDoc.status \in {"none", "saved"}
           /\ pdfDoc.status = "saved" =>
                  Len(pdfDoc.rows) = Len(selectedProperty.floorplans)

C6_NegativePercentage(fp, sc, row) ==
    /\ sc.concession_type = "percentage"
    /\ Greater(sc.concession_value, Num(100))
    /\ IsPositive(row.grossRent)
    /\ IsNegative(row.netEffective)

C6_NegativeFreeMonths(fp, sc, row) ==
    /\ sc.concession_type = "free_months"
    /\ Greater(sc.concession_value, Num(12))
    /\ IsPositive(row.grossRent)
    /\ IsNegative(row.netEffective)

C6_Witness ==
    \/ SomeRowOfEach(C6_NegativePercentage)
    \/ SomeRowOfEach(C6_NegativeFreeMonths)

InvalidInput(fp) ==
    \/ fp.unit_count < 0
    \/ fp.square_footage <= 0
    \/ IsNegative(fp.base_rent)
    \/ IsNegative(fp.amenity_rent)

\* C9: the per-floorplan calculation fails with InvalidInput and produces no
\* figures when unit_count < 0, square_footage <= 0, base_rent < 0 or
\* amenity_rent < 0: once the export has run, neither the exported document nor
\* the table on screen holds a row computed from such a floorplan.
C9_InvalidInputRejected ==
    pdfDoc.status = "saved" =>
        \A i \in 1..Len(selectedProperty.floorplans) :
            InvalidInput(selectedProperty.floorplans[i]) =>
                /\ i \notin DOMAIN pdfDoc.rows
                /\ ~(tableRows.shown /\ i \in DOMAIN tableRows.rows)

-----------------------------------------------------------------------------
(* Claims about App (Spec, SpecBatch, SpecEval)                            *)

\* C7: whenever exportToPDF has written the floorplan breakdown, its rows
\* (adjustedBase, adjustedAmenity, grossRent, concessionAmount, netEffective per
\* floorplan) are the rows of the floorplan table on screen, also while the
\* active scenario is being edited.
C7_PdfShowsScreen ==
    pdfDoc.status = "saved" =>
        /\ tableRows.shown
        /\ tableRows.rows = pdfDoc.rows

\* C8: the calculate requests of one calculateAllScenarios batch are all
\* computed from the same floorplan inventory, whatever floorplan create, update
\* or delete is handled between them.
C8_ConsistentSnapshot ==
    \A c \in 1..Len(calcCalls) : Cardinality(calcCalls[c].seen) <= 1

C10_SameInputsSameFigures ==
    remembered # Null =>
        \A e \in Evaluations :
            (e.fp = remembered.eval.fp /\ e.params = remembered.eval.params) =>
                e.row = remembered.eval.row

\* C10: the calculation is deterministic and stateless: an evaluation gives the
\* figures an earlier evaluation gave for the same floorplan and the same
\* scenario parameters, whatever selections, edits, saves, recalculations and
\* exports happened in between, in the table and in the PDF alike; and the
\* export's evaluation changes neither App's state nor the backend's.
C10_Deterministic ==
    /\ []C10_SameInputsSameFigures
    /\ [][ClickExportPDF => UNCHANGED <<appState, netState>>]_vars

\* an earlier evaluation has been kept, App's state has changed since (a form
\* change), and the same floorplan is evaluated again with the same parameters,
\* in the PDF and, for another stored scenario, on screen
C10_Witness ==
    /\ remembered # Null
    /\ inputs > 0
    /\ pdfDoc.status = "saved"
    /\ \E e \in Evaluations :
        /\ e.fp = remembered.eval.fp
        /\ e.params = remembered.eval.params
        /\ e.row = remembered.eval.row
    /\ editingScenario # Null
    /\ Params(editingScenario) # Params(At(scenarios, activeTab))

-----------------------------------------------------------------------------
(* SpecSwitch: App from its mount on, with selections made while            *)
(* calculations are in flight and every request answered successfully.      *)

NextSwitch ==
    \/ LoadDataDone
    \/ SelectProperty
    \/ SelectAnalysis
    \/ ServerCalculate
    \/ CalcResolved

SpecSwitch == Init /\ [][NextSwitch]_vars

-----------------------------------------------------------------------------
(* Claims about the aggregation and the waterfall (SpecAgg)                *)

\* the floorplan of the concrete scenario
C11_Floorplan(fp) ==
    /\ fp.unit_count = 10
    /\ fp.square_footage = 750
    /\ fp.base_rent = Num(1000)
    /\ fp.amenity_rent = Num(100)

\* the adjustments of the concrete scenario
C11_Scenario(sc) ==
    /\ sc.base_rent_pct_adj = Rat(5, 100)
    /\ sc.base_rent_dollar_adj = Num(0)
    /\ sc.amenity_rent_pct_adj = Num(0)
    /\ sc.amenity_rent_dollar_adj = Num(0)
    /\ sc.concession_type = "dollar"
    /\ sc.concession_value = Num(50)

C11_Figures(row) ==
    /\ row.adjustedBase = Num(1050)
    /\ row.grossRent = Num(1150)
    /\ row.netEffective = Num(1100)

\* C11: for the floorplan 10 units / 750 sqft / base 1000 / amenity 100 under
\* the scenario +5% base rent with a dollar concession of 50, the PDF and the
\* table show adjustedBase 1050, grossRent 1150 and netEffective 1100, and the
\* calculated scenario carries total_annual_revenue 132000, avg_rent_per_unit
\* 1100 and revenue_per_sqft 11000/7500.
C11_ConcreteScenario ==
    /\ (pdfDoc.status = "saved" /\ C11_Scenario(pdfDoc.scenario)) =>
           \A i \in DOMAIN pdfDoc.rows :
               C11_Floorplan(selectedProperty.floorplans[i]) =>
                   C11_Figures(pdfDoc.rows[i])
    /\ (tableRows.shown /\ C11_Scenario(tableRows.scenario)) =>
           \A i \in DOMAIN tableRows.rows :
               C11_Floorplan(selectedProperty.floorplans[i]) =>
                   C11_Figures(tableRows.rows[i])
    /\ \A k \in 1..Len(scenarios) :
           ( /\ C11_Scenario(scenarios[k])
             /\ Len(srvFloorplans["p1"]) = 1
             /\ C11_Floorplan(srvFloorplans["p1"][1]) ) =>
               /\ scenarios[k].results.total_annual_revenue = Num(132000)
               /\ scenarios[k].results.avg_rent_per_unit = Num(1100)
               /\ scenarios[k].results.revenue_per_sqft = Rat(11000, 7500)

\* the concrete scenario has been calculated and exported
C11_Witness ==
    /\ pdfDoc.status = "saved"
    /\ C11_Scenario(pdfDoc.scenario)
    /\ Len(pdfDoc.rows) = 1
    /\ C11_Floorplan(selectedProperty.floorplans[1])
    /\ pdfDoc.rows[1].netEffective = Num(1100)
    /\ Len(scenarios) > 0
    /\ C11_Scenario(scenarios[1])
    /\ scenarios[1].results.total_annual_revenue = Num(132000)

\* the inventory with every unit_count doubled, rents and areas as they are
C12_Doubled(fps) ==
    [i \in DOMAIN fps |-> [fps[i] EXCEPT !.unit_count = 2 * @]]

\* 12 * sum(netEffective_i * unit_count_i), with the netEffective the floorplan
\* table shows
C12_TwelveMonths(fps, sc) ==
    Times(Num(12),
          SumOver([i \in DOMAIN fps |->
                      Times(TableRow(fps[i], sc).netEffective,
                            Num(fps[i].unit_count))], 1))

\* C12: for every calculated scenario, total_annual_revenue is 12 times the sum
\* of netEffective * unit_count, doubling every unit_count doubles it and
\* leaves avg_rent_per_unit and weighted_avg_rent, which are equal, unchanged.
C12_LinearInUnits ==
    \A k \in 1..Len(scenarios) :
        LET fps == srvFloorplans["p1"]
            r == scenarios[k].results
            d == CalculateScenarioResults(C12_Doubled(fps), scenarios[k])
        IN  /\ r.total_annual_revenue = C12_TwelveMonths(fps, scenarios[k])
            /\ d.total_annual_revenue = Times(Num(2), r.total_annual_revenue)
            /\ d.avg_rent_per_unit = r.avg_rent_per_unit
            /\ d.weighted_avg_rent = r.weighted_avg_rent
            /\ r.avg_rent_per_unit = r.weighted_avg_rent

\* a scenario calculated over two floorplans of different unit counts, with
\* revenue to double
C12_Witness ==
    /\ Len(srvFloorplans["p1"]) = 2
    /\ srvFloorplans["p1"][1].unit_count = 10
    /\ srvFloorplans["p1"][2].unit_count = 4
    /\ \E k \in 1..Len(scenarios) :
        /\ scenarios[k].concession_type = "percentage"
        /\ Greater(scenarios[k].results.total_annual_revenue, Num(0))

\* every floorplan of the inventory has no units (also: there is no floorplan)
C13_NoUnits(fps) == \A i \in DOMAIN fps : fps[i].unit_count = 0

\* C13: over an inventory whose floorplans all have unit_count 0, or an empty
\* one, every calculate request is answered with avg_rent_per_unit 0,
\* revenue_per_sqft 0 and total_annual_revenue 0.
C13_ZeroUnits ==
    C13_NoUnits(srvFloorplans["p1"]) =>
        /\ \A c \in 1..Len(calcCalls) : \A k \in 1..Len(calcCalls[c].responses) :
               calcCalls[c].responses[k] # Pending =>
                   calcCalls[c].responses[k].results # Undefined
        /\ \A k \in 1..Len(scenarios) :
               /\ scenarios[k].results.avg_rent_per_unit = Num(0)
               /\ scenarios[k].results.revenue_per_sqft = Num(0)
               /\ scenarios[k].results.total_annual_revenue = Num(0)

\* scenarios calculated over floorplans without units
C13_Witness ==
    /\ Len(srvFloorplans["p1"]) > 0
    /\ C13_NoUnits(srvFloorplans["p1"])
    /\ Len(scenarios) = 2
    /\ scenarios[2].results.avg_rent_per_unit = Num(0)

\* the calculated scenario with this id, as App holds it
C14_Calculated(id) ==
    scenarios[CHOOSE k \in 1..Len(scenarios) : scenarios[k].id = id]

\* C14: a waterfall between two calculated scenarios of one inventory starts
\* with a base step worth the baseline's total_annual_revenue, ends with a
\* final step worth the target's, has only delta steps in between, and the
\* base value plus the delta values is the final value.
C14_WaterfallSums ==
    (waterfall # Null /\ waterfall.response.error = "") =>
        LET steps == waterfall.response.waterfall
            n == Len(steps)
        IN  /\ n >= 2
            /\ steps[1].type = "base"
            /\ steps[1].value =
                   C14_Calculated(waterfall.baseline).results.total_annual_revenue
            /\ steps[n].type = "final"
            /\ steps[n].value =
                   C14_Calculated(waterfall.scenario).results.total_annual_revenue
            /\ \A i \in 2..(n - 1) : steps[i].type = "delta"
            /\ SumOver([i \in 1..(n - 1) |-> steps[i].value], 1) = steps[n].value

\* a waterfall whose drivers interact: the base-rent and the concession effect
\* do not add up to the difference of the totals
C14_Witness ==
    /\ waterfall # Null
    /\ waterfall.response.error = ""
    /\ waterfall.scenario = "s2"
    /\ Len(waterfall.response.waterfall) > 2
    /\ waterfall.response.waterfall[2].value # Num(0)
    /\ waterfall.response.waterfall[4].value # Num(0)
    /\ Plus(waterfall.response.waterfall[1].value,
            Plus(waterfall.response.waterfall[2].value,
                 Plus(waterfall.response.waterfall[3].value,
                      waterfall.response.waterfall[4].value)))
           # waterfall.response.waterfall[Len(waterfall.response.waterfall)].value

-----------------------------------------------------------------------------
(* Claims about App's requests and handlers                                *)

\* C15: once no calculateAllScenarios request is in flight, all of them having
\* succeeded, every scenario App holds belongs to the selected analysis.
C15_ScenariosOfSelectedAnalysis ==
    (~loading /\ calcCalls = <<>> /\ selectedAnalysis # Null) =>
        \A k \in 1..Len(scenarios) :
            scenarios[k].analysis_id = selectedAnalysis.id

\* C16: whenever the Export PDF button is enabled, activeTab is an index of
\* scenarios, so scenarios[activeTab] is a scenario.
C16_ActiveTabInRange ==
    ExportEnabled =>
        /\ activeTab < Len(scenarios)
        /\ At(scenarios, activeTab) # Undefined

\* C17: calculating is true while a calculateScenarios invocation awaits its
\* result, and false when none does.
C17_CalculatingWhileAwaiting ==
    /\ calcCalls # <<>> => calculating
    /\ calcCalls = <<>> => ~calculating

\* what the step of updateScenario / resetScenario after the calculate response
\* of invocation u may change
C18_Frame(u) ==
    LET calculated == updateCalls[u].response
    IN  /\ updateCalls[u].stage = "settle"
        /\ updateCalls' = Remove(updateCalls, u)
        /\ Len(scenarios') = Len(scenarios)
        /\ \A i \in 1..Len(scenarios) :
               /\ scenarios[i].id = calculated.id => scenarios'[i] = calculated
               /\ scenarios[i].id # calculated.id => scenarios'[i] = scenarios[i]
        /\ editingScenario' = Null
        /\ UNCHANGED <<activeTab, selectedAnalysis, selectedProperty>>

\* C18: a successful updateScenario or resetScenario replaces exactly the
\* entries of scenarios with the recalculated scenario's id by the recalculated
\* scenario and clears editingScenario; length, order, other entries,
\* activeTab, selectedAnalysis and selectedProperty stay as they are.
C18_UpdateFrame ==
    [][UpdateSettled => \E u \in 1..Len(updateCalls) : C18_Frame(u)]_vars

\* a saved edit of s1 has settled: App holds the recalculated s1 next to s2
C18_Witness ==
    /\ updateCalls = <<>>
    /\ editingScenario = Null
    /\ Len(scenarios) = 2
    /\ scenarios[1].id = "s1"
    /\ Params(scenarios[1]) # Params(InitialScenarios["s1"])
    /\ scenarios[1].results # InitialScenarios["s1"].results
    /\ scenarios[2].id = "s2"
    /\ Params(scenarios[2]) = Params(InitialScenarios["s2"])

\* an updateScenario / resetScenario invocation ends in its catch: its update
\* request or its calculate request failed
C19_Failed ==
    \E u \in 1..Len(updateCalls) :
        /\ updateCalls[u].stage \in {"update", "calculate"}
        /\ updateCalls' = Remove(updateCalls, u)

\* the user declines resetScenario's confirmation
C19_Declined == ClickReset /\ UNCHANGED updateCalls

\* C19: a failed update or calculate request of updateScenario / resetScenario,
\* or a declined confirmation, leaves scenarios and editingScenario as they
\* were, as does every step of the invocation before it, and App goes on with
\* the state it had.
C19_FailureLeavesState ==
    [][ /\ (ClickSave \/ ClickReset \/ ServerUpdate \/ ServerRecalculate) =>
               UNCHANGED <<scenarios, editingScenario>>
        /\ (C19_Failed \/ C19_Declined) => UNCHANGED <<appState, tableRows>>
      ]_vars

\* a save whose update request succeeded and whose calculate request failed:
\* the backend holds the form's values, App still shows the form over the
\* stored scenario
C19_Witness ==
    /\ updateCalls = <<>>
    /\ editingScenario # Null
    /\ At(scenarios, activeTab) # Undefined
    /\ editingScenario.id = At(scenarios, activeTab).id
    /\ Params(editingScenario) # Params(At(scenarios, activeTab))
    /\ Params(srvScenarios[editingScenario.id]) = Params(editingScenario)

-----------------------------------------------------------------------------
(* Claims about the reported figures (SpecCalc)                            *)

C20_Row(fp, sc, row) ==
    /\ row.netEffective = Minus(row.grossRent, row.concessionAmount)
    /\ sc.concession_type = "dollar" =>
           AtMost(row.concessionAmount, Minus(row.grossRent, row.netEffective))

\* C20: in every row of an exported PDF and of the table next to it,
\* netEffective is grossRent less concessionAmount, and a dollar concession's
\* concessionAmount is at most grossRent less netEffective.
C20_NetIsGrossLessConcession ==
    pdfDoc.status = "saved" => EveryRow(C20_Row)

====
